---- MODULE Spec2Model ----
(***************************************************************************)
(* Model of convert_recording.py: the Ogg-style page reader (page_reader   *)
(* over BufferedStream), the stream router (decode) and the two codec      *)
(* handlers (OggPCMHandler, W2GoHandler).                                  *)
(*                                                                         *)
(* Bytes are integers 0..255, byte strings are sequences of bytes.         *)
(* Handler objects live in the heap `objs`; `handlers` (the dict of        *)
(* decode) and `output` hold references (indices) into that heap, so the   *)
(* aliasing output['markers'] = self.markers is kept.                      *)
(***************************************************************************)
EXTENDS Integers, Sequences, FiniteSets, TLC

VARIABLES
    pc,                   \* position of the single thread of control
    err,                  \* "" or the exception that ended the run
    buffer,               \* BufferedStream.buffer
    fed,                  \* every byte stream.read() has returned so far
    reads,                \* number of stream.read() calls made
    sync,                 \* local `sync` of synchronise()
    page_header,          \* local `page_header` of page_reader
    raw_segment_lengths,  \* local `raw_segment_lengths` of page_reader
    segment_lengths,      \* local `segment_lengths` of page_reader
    segments,             \* local `segments` of page_reader
    payload_off,          \* number of bytes taken when the lacing table had been read
    page,                 \* the Page decode is working on
    seg_i,                \* index of the for loop over page.segments in decode
    pages_log,            \* every Page page_reader has yielded, in order
    objs,                 \* heap of handler objects
    handlers,             \* decode's dict: stream serial -> handler reference
    output,               \* decode's output dict: key -> handler reference
    seg_list              \* input of the lacing round trip: a list of lengths

vars == <<pc, err, buffer, fed, reads, sync, page_header, raw_segment_lengths,
          segment_lengths, segments, payload_off, page, seg_i, pages_log,
          objs, handlers, output, seg_list>>

----------------------------------------------------------------------------
(* Bounds *)

MaxTable == 3       \* longest lacing table / length list of the pure lacing check
MaxPackets == 5     \* packets delivered to one handler in the handler checks
MaxReads == 3       \* stream.read() calls that return data in the page reader check
MaxPages == 4       \* stream.read() calls that return data (one page each) in decode

LacingVals == {0, 3, 5, 10, 255}
LengthVals == {0, 3, 254, 255, 256, 510, 520}

----------------------------------------------------------------------------
(* Byte strings *)

Min(a, b) == IF a < b THEN a ELSE b

\* s[:n]
Prefix(s, n) == SubSeq(s, 1, Min(n, Len(s)))

\* s[n:]
Suffix(s, n) == SubSeq(s, Min(n, Len(s)) + 1, Len(s))

\* s[a:b]
Slice(s, a, b) == SubSeq(s, Min(a, Len(s)) + 1, Min(b, Len(s)))

RECURSIVE Pow256(_)
Pow256(k) == IF k = 0 THEN 1 ELSE 256 * Pow256(k - 1)

\* struct.unpack('<H' / '<L' / 'B'): little-endian unsigned integer
RECURSIVE unpack_le(_)
unpack_le(bs) == IF bs = <<>> THEN 0 ELSE Head(bs) + 256 * unpack_le(Tail(bs))

\* little-endian encoding of n on w bytes (used to build inputs)
pack_le(n, w) == [i \in 1..w |-> (n \div Pow256(i - 1)) % 256]

RECURSIVE Concat(_)
Concat(ss) == IF ss = <<>> THEN <<>> ELSE Head(ss) \o Concat(Tail(ss))

RECURSIVE SumSeq(_)
SumSeq(s) ==
    IF s = <<>> THEN 0
    ELSE IF Len(s) = 1 THEN s[1]
    ELSE SumSeq(SubSeq(s, 1, Len(s) \div 2)) + SumSeq(SubSeq(s, Len(s) \div 2 + 1, Len(s)))

Zeros(n) == [i \in 1..n |-> 0]

SeqsUpTo(S, n) == UNION {[1..k -> S] : k \in 0..n}

OggS == <<79, 103, 103, 83>>                       \* b'OggS'
TagPCM == <<80, 67, 77, 32, 32, 32, 32, 32>>       \* b'PCM     '
TagW2Go == <<82, 79, 68, 69, 87, 103, 111, 50>>    \* b'RODEWgo2'
TagOther == <<118, 111, 114, 98, 105, 115, 32, 32>> \* b'vorbis  '
ChP == 80                                          \* b'P'
ChS == 83                                          \* b'S'

endswith(s, suffix) ==
    /\ Len(s) >= Len(suffix)
    /\ SubSeq(s, Len(s) - Len(suffix) + 1, Len(s)) = suffix

----------------------------------------------------------------------------
(* page_reader: lacing decode, lines 83-90 *)

\* one iteration of `for rsl in raw_segment_lengths`
lacing_step_keeps_run(st, rsl) ==
    IF rsl = 255
    THEN [segment_lengths |-> st.segment_lengths, cur_length |-> st.cur_length + rsl]
    ELSE [segment_lengths |-> Append(st.segment_lengths, rsl + st.cur_length),
          cur_length |-> st.cur_length]

lacing_step_no_continuation(st, rsl) ==
    [segment_lengths |-> Append(st.segment_lengths, rsl + st.cur_length),
     cur_length |-> 0]

lacing_step(st, rsl) ==
    IF rsl = 255
    THEN [segment_lengths |-> st.segment_lengths, cur_length |-> st.cur_length + rsl]
    ELSE [segment_lengths |-> Append(st.segment_lengths, rsl + st.cur_length),
          cur_length |-> 0]

RECURSIVE lacing_loop(_, _)
\* the iterations run in order, left to right; the list is split in two so
\* that a table of 255 entries is evaluated at a small nesting depth, and the
\* state after the first part is computed before the second part starts
lacing_loop(st, raw) ==
    IF raw = <<>> THEN st
    ELSE IF Len(raw) = 1 THEN lacing_step(st, raw[1])
    ELSE LET half == Len(raw) \div 2
             st1 == lacing_loop(st, SubSeq(raw, 1, half))
         IN  IF st1.cur_length >= 0
             THEN lacing_loop(st1, SubSeq(raw, half + 1, Len(raw)))
             ELSE st1

decode_lacing_flushes_tail(raw) ==
    LET st == lacing_loop([segment_lengths |-> <<>>, cur_length |-> 0], raw)
    IN  IF st.cur_length > 0
        THEN Append(st.segment_lengths, st.cur_length)
        ELSE st.segment_lengths

decode_lacing(raw) ==
    lacing_loop([segment_lengths |-> <<>>, cur_length |-> 0], raw).segment_lengths

\* the minimal lacing table of a list of segment lengths (the encoder the
\* round trip is stated against; the repository has no encoder)
encode_length(n) == [i \in 1..(n \div 255) |-> 255] \o <<n % 255>>

RECURSIVE encode_lacing(_)
encode_lacing(lens) ==
    IF lens = <<>> THEN <<>> ELSE encode_length(Head(lens)) \o encode_lacing(Tail(lens))

----------------------------------------------------------------------------
(* BufferedStream.take, lines 37-43: the two halves of the slice *)

take_result(buf, count) == Prefix(buf, count)

take_rest(buf, count) == Suffix(buf, count)

\* fields of the 23-byte page header, lines 77-80
stream_serial_of(hdr) == unpack_le(Slice(hdr, 10, 14))
flags_of(hdr) == hdr[2]
num_segments_of(hdr) == hdr[23]

\* flags & mask, for a one-bit mask
BitSet(b, mask) == (b \div mask) % 2 = 1

\* the Page of lines 96-102
MkPageRecord(hdr, segs) ==
    [stream_serial |-> stream_serial_of(hdr),
     segments |-> segs,
     continued_packet |-> BitSet(flags_of(hdr), 1),
     begin_of_stream |-> BitSet(flags_of(hdr), 2),
     end_of_stream |-> BitSet(flags_of(hdr), 4)]

NoPage ==
    [stream_serial |-> 0, segments |-> <<>>, continued_packet |-> FALSE,
     begin_of_stream |-> FALSE, end_of_stream |-> FALSE]

\* number of bytes take() has handed out so far
Taken == Len(fed) - Len(buffer)

\* the count of the take() call the reader is standing at
Need ==
    CASE pc = "sync4" -> 4
      [] pc = "sync1" -> IF endswith(sync, OggS) THEN 0 ELSE 1
      [] pc = "header" -> 23
      [] pc = "lacing" -> num_segments_of(page_header)
      [] pc = "segments" /\ Len(segments) < Len(segment_lengths)
            -> segment_lengths[Len(segments) + 1]
      [] OTHER -> 0

ReaderVars == <<sync, page_header, raw_segment_lengths, segment_lengths,
                segments, payload_off>>
DecodeVars == <<page, seg_i, objs, handlers, output>>

\* BufferedStream.read, lines 45-53, called from take's while loop.  The
\* underlying stream.read(8192) returns the next piece of the file, or b''
\* at its end; EndOfFileError is caught only inside synchronise (line 65),
\* where it ends the page sequence and decode returns.
read_eof_always_ends(chunks, max_reads) ==
    /\ pc \in {"sync4", "sync1", "header", "lacing", "segments"}
    /\ Len(buffer) < Need
    /\ \/ /\ reads < max_reads
          /\ \E data \in chunks :
                /\ buffer' = buffer \o data
                /\ fed' = fed \o data
          /\ reads' = reads + 1
          /\ UNCHANGED <<pc, err>>
       \/ /\ pc' = "done"
          /\ UNCHANGED <<err, buffer, fed, reads>>
    /\ UNCHANGED <<ReaderVars, DecodeVars, pages_log, seg_list>>

read(chunks, max_reads) ==
    /\ pc \in {"sync4", "sync1", "header", "lacing", "segments"}
    /\ Len(buffer) < Need
    /\ \/ /\ reads < max_reads
          /\ \E data \in chunks :
                /\ buffer' = buffer \o data
                /\ fed' = fed \o data
          /\ reads' = reads + 1
          /\ UNCHANGED <<pc, err>>
       \/ /\ IF pc \in {"sync4", "sync1"}
             THEN pc' = "done" /\ err' = err
             ELSE pc' = "error" /\ err' = "EndOfFileError"
          /\ UNCHANGED <<buffer, fed, reads>>
    /\ UNCHANGED <<ReaderVars, DecodeVars, pages_log, seg_list>>

\* synchronise, line 60: sync = bs.take(4)
synchronise_take5 ==
    /\ pc = "sync4"
    /\ Len(buffer) >= 5
    /\ sync' = take_result(buffer, 5)
    /\ buffer' = take_rest(buffer, 5)
    /\ pc' = "sync1"
    /\ UNCHANGED <<err, fed, reads, page_header, raw_segment_lengths,
                   segment_lengths, segments, payload_off, DecodeVars,
                   pages_log, seg_list>>

synchronise_take4 ==
    /\ pc = "sync4"
    /\ Len(buffer) >= 4
    /\ sync' = take_result(buffer, 4)
    /\ buffer' = take_rest(buffer, 4)
    /\ pc' = "sync1"
    /\ UNCHANGED <<err, fed, reads, page_header, raw_segment_lengths,
                   segment_lengths, segments, payload_off, DecodeVars,
                   pages_log, seg_list>>

\* synchronise, lines 62-63 and 68: one test of the while condition
synchronise_loop_stalls ==
    /\ pc = "sync1"
    /\ IF endswith(sync, OggS)
       THEN /\ pc' = "header"
            /\ UNCHANGED <<sync, buffer>>
       ELSE /\ Len(buffer) >= 1
            /\ sync' = sync \o take_result(buffer, 0)
            /\ buffer' = take_rest(buffer, 0)
            /\ pc' = pc
    /\ UNCHANGED <<err, fed, reads, page_header, raw_segment_lengths,
                   segment_lengths, segments, payload_off, DecodeVars,
                   pages_log, seg_list>>

synchronise_loop ==
    /\ pc = "sync1"
    /\ IF endswith(sync, OggS)
       THEN /\ pc' = "header"
            /\ UNCHANGED <<sync, buffer>>
       ELSE /\ Len(buffer) >= 1
            /\ sync' = sync \o take_result(buffer, 1)
            /\ buffer' = take_rest(buffer, 1)
            /\ pc' = pc
    /\ UNCHANGED <<err, fed, reads, page_header, raw_segment_lengths,
                   segment_lengths, segments, payload_off, DecodeVars,
                   pages_log, seg_list>>

read_header_any_revision ==
    /\ pc = "header"
    /\ Len(buffer) >= 23
    /\ page_header' = take_result(buffer, 23)
    /\ buffer' = take_rest(buffer, 23)
    /\ pc' = "lacing"
    /\ UNCHANGED <<err, fed, reads, sync, raw_segment_lengths, segment_lengths,
                   segments, payload_off, DecodeVars, pages_log, seg_list>>

\* page_reader, lines 72-80
read_header ==
    /\ pc = "header"
    /\ Len(buffer) >= 23
    /\ page_header' = take_result(buffer, 23)
    /\ buffer' = take_rest(buffer, 23)
    /\ IF page_header'[1] # 0
       THEN pc' = "error" /\ err' = "ValueError: revision"
       ELSE pc' = "lacing" /\ err' = err
    /\ UNCHANGED <<fed, reads, sync, raw_segment_lengths, segment_lengths,
                   segments, payload_off, DecodeVars, pages_log, seg_list>>

\* page_reader, lines 82-92
read_lacing ==
    /\ pc = "lacing"
    /\ Len(buffer) >= num_segments_of(page_header)
    /\ raw_segment_lengths' = take_result(buffer, num_segments_of(page_header))
    /\ buffer' = take_rest(buffer, num_segments_of(page_header))
    /\ segment_lengths' = decode_lacing(raw_segment_lengths')
    /\ segments' = <<>>
    /\ payload_off' = Len(fed) - Len(buffer')
    /\ pc' = "segments"
    /\ UNCHANGED <<err, fed, reads, sync, page_header, DecodeVars, pages_log,
                   seg_list>>

\* page_reader, lines 93-94: one iteration of the loop over segment_lengths
read_segment ==
    /\ pc = "segments"
    /\ Len(segments) < Len(segment_lengths)
    /\ Len(buffer) >= Need
    /\ segments' = Append(segments, take_result(buffer, Need))
    /\ buffer' = take_rest(buffer, Need)
    /\ UNCHANGED <<pc, err, fed, reads, sync, page_header, raw_segment_lengths,
                   segment_lengths, payload_off, DecodeVars, pages_log, seg_list>>

\* page_reader, lines 96-102: the page is handed to the consumer
yield_page ==
    /\ pc = "segments"
    /\ Len(segments) = Len(segment_lengths)
    /\ page' = MkPageRecord(page_header, segments)
    /\ pages_log' = Append(pages_log, page')
    /\ pc' = "page"
    /\ UNCHANGED <<err, buffer, fed, reads, ReaderVars, seg_i, objs, handlers,
                   output, seg_list>>

----------------------------------------------------------------------------
(* Codec handlers.  A handle_packet operator returns the handler after the  *)
(* call, the exception it raised ("" for none) and whether the call bound   *)
(* output['markers'] to the handler's marker list.  `recv` is the log of    *)
(* the packets handle_packet was called with.                               *)

Result(h, e, pub) == [h |-> h, err |-> e, publish |-> pub]

\* the wave.Wave_write object: setnchannels/setframerate refuse values < 1,
\* writeframes appends the block as it is
NoWav == [open |-> FALSE, nchannels |-> 0, sampwidth |-> 0, framerate |-> 0,
          frames |-> <<>>]

\* OggPCMHandler.__init__, lines 118-122 (options carries 'wavefile')
OggPCMHandler_init ==
    [cls |-> "OggPCMHandler", num_extra_header_packets |-> 0, done_packets |-> 0,
     wav |-> NoWav, recv |-> <<>>]

\* OggPCMHandler.handle_header, lines 136-149
OggPCMHandler_handle_header_no_config(h, packet) ==
    LET body == Suffix(packet, 8)
        num_extra_header_packets == unpack_le(Slice(body, 16, 20))
    IN  IF Len(body) # 20 THEN Result(h, "struct.error", FALSE)
        ELSE Result([h EXCEPT !.num_extra_header_packets = num_extra_header_packets],
                    "", FALSE)

OggPCMHandler_handle_header_asserts_late(h, packet) ==
    LET body == Suffix(packet, 8)
        major == unpack_le(Slice(body, 0, 2))
        minor == unpack_le(Slice(body, 2, 4))
        pcm_format == unpack_le(Slice(body, 4, 8))
        sampling_rate == unpack_le(Slice(body, 8, 12))
        num_channels == unpack_le(Slice(body, 13, 14))
        num_extra_header_packets == unpack_le(Slice(body, 16, 20))
        opened == [h EXCEPT !.wav = [NoWav EXCEPT !.open = TRUE],
                            !.num_extra_header_packets = num_extra_header_packets]
        chan == [opened EXCEPT !.wav.nchannels = num_channels, !.wav.sampwidth = 3]
    IN  IF Len(body) # 20 THEN Result(h, "struct.error", FALSE)
        ELSE IF num_channels < 1 THEN Result(opened, "wave.Error", FALSE)
        ELSE IF sampling_rate < 1 THEN Result(chan, "wave.Error", FALSE)
        ELSE IF major # 0 \/ minor # 0 \/ pcm_format # 4
        THEN Result([chan EXCEPT !.wav.framerate = sampling_rate],
                    "AssertionError", FALSE)
        ELSE Result([chan EXCEPT !.wav.framerate = sampling_rate], "", FALSE)

OggPCMHandler_handle_header(h, packet) ==
    LET body == Suffix(packet, 8)
        major == unpack_le(Slice(body, 0, 2))
        minor == unpack_le(Slice(body, 2, 4))
        pcm_format == unpack_le(Slice(body, 4, 8))
        sampling_rate == unpack_le(Slice(body, 8, 12))
        num_bits == unpack_le(Slice(body, 12, 13))
        num_channels == unpack_le(Slice(body, 13, 14))
        max_frames_per_packet == unpack_le(Slice(body, 14, 16))
        num_extra_header_packets == unpack_le(Slice(body, 16, 20))
        opened == [h EXCEPT !.wav = [NoWav EXCEPT !.open = TRUE],
                            !.num_extra_header_packets = num_extra_header_packets]
        chan == [opened EXCEPT !.wav.nchannels = num_channels, !.wav.sampwidth = 3]
    IN  IF Len(body) # 20 THEN Result(h, "struct.error", FALSE)
        ELSE IF major # 0 \/ minor # 0 \/ pcm_format # 4
        THEN Result(h, "AssertionError", FALSE)
        ELSE IF num_channels < 1 THEN Result(opened, "wave.Error", FALSE)
        ELSE IF sampling_rate < 1 THEN Result(chan, "wave.Error", FALSE)
        ELSE Result([chan EXCEPT !.wav.framerate = sampling_rate], "", FALSE)

\* the test of line 128
in_skip_window_extra_only(done_packets, num_extra_header_packets) ==
    done_packets <= num_extra_header_packets

in_skip_window(done_packets, num_extra_header_packets) ==
    done_packets <= 1 + num_extra_header_packets

\* OggPCMHandler.handle_packet, lines 124-134
OggPCMHandler_handle_packet_writes_header(h0, packet) ==
    LET h == [h0 EXCEPT !.recv = Append(@, packet)]
        hdr == OggPCMHandler_handle_header(h, packet)
    IN  IF h.done_packets = 0 /\ hdr.err # "" THEN hdr
        ELSE IF h.done_packets = 0
        THEN Result([hdr.h EXCEPT !.wav.frames = Append(@, packet),
                                  !.done_packets = @ + 1], "", FALSE)
        ELSE IF in_skip_window(h.done_packets, h.num_extra_header_packets)
        THEN Result([h EXCEPT !.done_packets = @ + 1], "", FALSE)
        ELSE Result([h EXCEPT !.wav.frames = Append(@, packet),
                              !.done_packets = @ + 1], "", FALSE)

OggPCMHandler_handle_packet(h0, packet) ==
    LET h == [h0 EXCEPT !.recv = Append(@, packet)]
        hdr == OggPCMHandler_handle_header(h, packet)
    IN  IF h.done_packets = 0 /\ hdr.err # "" THEN hdr
        ELSE IF h.done_packets = 0
        THEN Result([hdr.h EXCEPT !.done_packets = @ + 1], "", FALSE)
        ELSE IF in_skip_window(h.done_packets, h.num_extra_header_packets)
        THEN Result([h EXCEPT !.done_packets = @ + 1], "", FALSE)
        ELSE Result([h EXCEPT !.wav.frames = Append(@, packet),
                              !.done_packets = @ + 1], "", FALSE)

\* W2GoHandler.__init__, lines 152-157
W2GoHandler_init ==
    [cls |-> "W2GoHandler", done_packets |-> 0, buffer |-> <<>>, seconds |-> 0,
     markers |-> <<>>, type |-> "unset", recv |-> <<>>]

\* W2GoHandler.handle_header, lines 167-174
W2GoHandler_handle_header_lenient(h, packet) ==
    IF Slice(packet, 8, 9) = <<ChS>>
    THEN Result([h EXCEPT !.type = "status"], "", TRUE)
    ELSE Result([h EXCEPT !.type = "peak"], "", FALSE)

W2GoHandler_handle_header(h, packet) ==
    IF Slice(packet, 8, 9) = <<ChP>>
    THEN Result([h EXCEPT !.type = "peak"], "", FALSE)
    ELSE IF Slice(packet, 8, 9) = <<ChS>>
    THEN Result([h EXCEPT !.type = "status"], "", TRUE)
    ELSE Result(h, "ValueError: Wgo2 packet type", FALSE)

\* the while condition of line 179
status_pending_ge(buf) == Len(buf) >= 16

status_pending(buf) == Len(buf) > 16

\* the test of line 182 on a 16-byte record
is_marker_any_flag(status) == status[5] # 255

is_marker(status) == status[5] # 255 /\ BitSet(status[5], 4)

\* W2GoHandler.handle_status, lines 179-185: the while loop
status_loop_once(h) ==
    IF ~status_pending(h.buffer) THEN h
    ELSE [h EXCEPT
             !.buffer = Suffix(h.buffer, 16),
             !.markers = IF is_marker(Prefix(h.buffer, 16)) THEN Append(@, h.seconds) ELSE @,
             !.seconds = @ + 1]

RECURSIVE status_loop(_)
status_loop(h) ==
    IF ~status_pending(h.buffer) THEN h
    ELSE LET status == Prefix(h.buffer, 16)
             rest == Suffix(h.buffer, 16)
         IN  status_loop([h EXCEPT
                 !.buffer = rest,
                 !.markers = IF is_marker(status) THEN Append(@, h.seconds) ELSE @,
                 !.seconds = @ + 1])

\* W2GoHandler.handle_status, lines 176-185
W2GoHandler_handle_status_restarts_clock(h, packet) ==
    status_loop([h EXCEPT !.buffer = @ \o packet, !.seconds = 0])

W2GoHandler_handle_status_drops_partial(h, packet) ==
    status_loop([h EXCEPT !.buffer = packet])

W2GoHandler_handle_status(h, packet) ==
    status_loop([h EXCEPT !.buffer = @ \o packet])

\* W2GoHandler.handle_packet, lines 159-165
W2GoHandler_handle_packet(h0, packet) ==
    LET h == [h0 EXCEPT !.recv = Append(@, packet)]
        hdr == W2GoHandler_handle_header(h, packet)
    IN  IF h.done_packets = 0 /\ hdr.err # "" THEN hdr
        ELSE IF h.done_packets = 0
        THEN Result([hdr.h EXCEPT !.done_packets = @ + 1], "", hdr.publish)
        ELSE IF h.type = "status"
        THEN Result([W2GoHandler_handle_status(h, packet) EXCEPT !.done_packets = @ + 1],
                    "", FALSE)
        ELSE Result([h EXCEPT !.done_packets = @ + 1], "", FALSE)

\* dynamic dispatch of handler.handle_packet(segment)
handle_packet(h, packet) ==
    IF h.cls = "OggPCMHandler" THEN OggPCMHandler_handle_packet(h, packet)
    ELSE W2GoHandler_handle_packet(h, packet)

\* output[key] = reference
SetKey(out, key, ref) == {p \in out : p[1] # key} \cup {<<key, ref>>}

----------------------------------------------------------------------------
(* decode, lines 187-208 *)

\* line 193
refuses_continued_never(pg) == FALSE

refuses_continued(pg) == pg.continued_packet

\* CodecHandler.for_codec, lines 105-112
for_codec_defaults_to_w2go(codec_id) ==
    IF codec_id = TagPCM THEN Result(OggPCMHandler_init, "", FALSE)
    ELSE Result(W2GoHandler_init, "", FALSE)

for_codec(codec_id) ==
    IF codec_id = TagPCM THEN Result(OggPCMHandler_init, "", FALSE)
    ELSE IF codec_id = TagW2Go THEN Result(W2GoHandler_init, "", FALSE)
    ELSE Result(<<>>, "ValueError: Unknown codec", FALSE)

\* handlers[serial] = ref, line 198
handlers_set(hs, serial, ref) ==
    [t \in DOMAIN hs \cup {serial} |-> IF t = serial THEN ref ELSE hs[t]]

\* handlers.pop(serial), line 206
handlers_pop_keeps(hs, serial) == hs

handlers_pop(hs, serial) == [t \in DOMAIN hs \ {serial} |-> hs[t]]

\* handler = handlers[page.stream_serial], line 200
handlers_get_first(hs, serial) ==
    hs[CHOOSE t \in DOMAIN hs : \A u \in DOMAIN hs : t <= u]

handlers_get(hs, serial) == hs[serial]

\* lines 193-200: the page's flags are looked at and its handler is found
decode_page_skips_unmapped ==
    /\ pc = "page"
    /\ IF refuses_continued(page)
       THEN /\ pc' = "error"
            /\ err' = "ValueError: split packets"
            /\ UNCHANGED <<objs, handlers, seg_i>>
       ELSE IF page.begin_of_stream /\ page.segments = <<>>
       THEN /\ pc' = "error"
            /\ err' = "IndexError"
            /\ UNCHANGED <<objs, handlers, seg_i>>
       ELSE IF page.begin_of_stream
       THEN LET made == for_codec(Prefix(page.segments[1], 8))
            IN  IF made.err # ""
                THEN /\ pc' = "error"
                     /\ err' = made.err
                     /\ UNCHANGED <<objs, handlers, seg_i>>
                ELSE /\ objs' = Append(objs, made.h)
                     /\ handlers' = handlers_set(handlers, page.stream_serial,
                                                 Len(objs) + 1)
                     /\ seg_i' = 1
                     /\ pc' = "dispatch"
                     /\ err' = err
       ELSE IF page.stream_serial \notin DOMAIN handlers
       THEN /\ pc' = "sync4"
            /\ UNCHANGED <<err, objs, handlers, seg_i>>
       ELSE /\ seg_i' = 1
            /\ pc' = "dispatch"
            /\ UNCHANGED <<err, objs, handlers>>
    /\ UNCHANGED <<buffer, fed, reads, ReaderVars, page, pages_log, output, seg_list>>

decode_page ==
    /\ pc = "page"
    /\ IF refuses_continued(page)
       THEN /\ pc' = "error"
            /\ err' = "ValueError: split packets"
            /\ UNCHANGED <<objs, handlers, seg_i>>
       ELSE IF page.begin_of_stream /\ page.segments = <<>>
       THEN /\ pc' = "error"
            /\ err' = "IndexError"
            /\ UNCHANGED <<objs, handlers, seg_i>>
       ELSE IF page.begin_of_stream
       THEN LET made == for_codec(Prefix(page.segments[1], 8))
            IN  IF made.err # ""
                THEN /\ pc' = "error"
                     /\ err' = made.err
                     /\ UNCHANGED <<objs, handlers, seg_i>>
                ELSE /\ objs' = Append(objs, made.h)
                     /\ handlers' = handlers_set(handlers, page.stream_serial,
                                                 Len(objs) + 1)
                     /\ seg_i' = 1
                     /\ pc' = "dispatch"
                     /\ err' = err
       ELSE IF page.stream_serial \notin DOMAIN handlers
       THEN /\ pc' = "error"
            /\ err' = "KeyError"
            /\ UNCHANGED <<objs, handlers, seg_i>>
       ELSE /\ seg_i' = 1
            /\ pc' = "dispatch"
            /\ UNCHANGED <<err, objs, handlers>>
    /\ UNCHANGED <<buffer, fed, reads, ReaderVars, page, pages_log, output, seg_list>>

\* lines 202-203: one iteration of the loop over page.segments
dispatch ==
    /\ pc = "dispatch"
    /\ seg_i <= Len(page.segments)
    /\ LET ref == handlers_get(handlers, page.stream_serial)
           r == handle_packet(objs[ref], page.segments[seg_i])
       IN  /\ objs' = [objs EXCEPT ![ref] = r.h]
           /\ output' = IF r.publish THEN SetKey(output, "markers", ref) ELSE output
           /\ IF r.err # ""
              THEN pc' = "error" /\ err' = r.err /\ seg_i' = seg_i
              ELSE pc' = pc /\ err' = err /\ seg_i' = seg_i + 1
    /\ UNCHANGED <<buffer, fed, reads, ReaderVars, page, pages_log, handlers, seg_list>>

\* lines 205-206, then the generator is resumed
end_page ==
    /\ pc = "dispatch"
    /\ seg_i > Len(page.segments)
    /\ handlers' = IF page.end_of_stream
                   THEN handlers_pop(handlers, page.stream_serial)
                   ELSE handlers
    /\ pc' = "sync4"
    /\ UNCHANGED <<err, buffer, fed, reads, ReaderVars, page, pages_log, seg_i,
                   objs, output, seg_list>>

----------------------------------------------------------------------------
(* Inputs *)

Serials == {1, 258}

PCMHeader(major, minor, pcm_format, rate, bits, channels, max_frames, extra) ==
    TagPCM \o pack_le(major, 2) \o pack_le(minor, 2) \o pack_le(pcm_format, 4)
           \o pack_le(rate, 4) \o <<bits, channels>> \o pack_le(max_frames, 2)
           \o pack_le(extra, 4)

GoodPCMHeader(extra) == PCMHeader(0, 0, 4, 48000, 24, 2, 0, extra)

W2Header(t) == TagW2Go \o <<t>>

\* a 16-byte status record with the given flag byte at offset 4
Record(flag) == [i \in 1..16 |-> IF i = 5 THEN flag ELSE i]

DataA == <<17, 18, 19>>
DataB == <<33, 34, 35, 36, 37, 38>>

\* the bytes of a page: sync, 23-byte header, lacing table, payload
EncodePage(rev, flags, serial, table, payload) ==
    OggS \o <<rev, flags>> \o Zeros(8) \o pack_le(serial, 4) \o Zeros(8)
         \o <<Len(table)>> \o table \o payload

PageOf(flags, serial, segs) ==
    EncodePage(0, flags, serial,
               encode_lacing([i \in 1..Len(segs) |-> Len(segs[i])]), Concat(segs))

DecodeChunks ==
    UNION {{PageOf(2, s, <<GoodPCMHeader(0), DataA>>),
            PageOf(2, s, <<W2Header(ChS), Record(4)>>),
            PageOf(0, s, <<DataA, DataB>>),
            PageOf(4, s, <<Record(255) \o Record(4)>>),
            PageOf(1, s, <<DataA>>),
            PageOf(2, s, <<TagOther \o <<0>>, DataA>>)} : s \in Serials}
    \cup {PageOf(2, 1, <<PCMHeader(1, 0, 4, 48000, 24, 2, 0, 2), DataA>>),
          PageOf(2, 1, <<PCMHeader(0, 1, 4, 48000, 24, 2, 0, 2), DataA>>),
          PageOf(2, 1, <<PCMHeader(0, 0, 2, 48000, 16, 2, 0, 2), DataA>>)}
    \cup {PageOf(6, 1, <<W2Header(ChP)>>),
          PageOf(3, 1, <<W2Header(ChS)>>),
          PageOf(2, 1, <<>>),
          EncodePage(1, 0, 1, <<>>, <<>>),
          PageOf(2, 1, <<W2Header(88)>>),
          Prefix(PageOf(0, 1, <<DataA>>), 28)}

PCMPackets ==
    {GoodPCMHeader(e) : e \in 0..2}
    \cup {PCMHeader(1, 0, 4, 48000, 24, 2, 0, 0), PCMHeader(0, 0, 2, 48000, 16, 2, 0, 0),
          PCMHeader(0, 0, 4, 48000, 24, 0, 0, 0), PCMHeader(0, 0, 4, 0, 24, 1, 0, 0)}
    \cup {DataA, DataB, <<>>}

W2GoPackets ==
    {W2Header(ChS), W2Header(ChP), W2Header(88), TagW2Go}
    \cup {Record(4), Record(255), Record(12), Record(251),
          Prefix(Record(4), 8), Suffix(Record(4), 8),
          Record(4) \o Record(255), <<>>}

----------------------------------------------------------------------------
(* Specifications *)

Idle(start) ==
    /\ pc = start
    /\ err = ""
    /\ buffer = <<>>
    /\ fed = <<>>
    /\ reads = 0
    /\ sync = <<>>
    /\ page_header = <<>>
    /\ segment_lengths = <<>>
    /\ segments = <<>>
    /\ payload_off = 0
    /\ page = NoPage
    /\ seg_i = 0
    /\ pages_log = <<>>
    /\ handlers = [t \in {} |-> 0]
    /\ output = {}

\* decode(fp, options): nothing read yet, no handler
Init ==
    /\ Idle("sync4")
    /\ raw_segment_lengths = <<>>
    /\ objs = <<>>
    /\ seg_list = <<>>

Next ==
    \/ read(DecodeChunks, MaxPages)
    \/ synchronise_take4
    \/ synchronise_loop
    \/ read_header
    \/ read_lacing
    \/ read_segment
    \/ yield_page
    \/ decode_page
    \/ dispatch
    \/ end_page

Spec == Init /\ [][Next]_vars

\* decode run to its end on a finite file: the program is sequential, so
\* whichever step it is at is taken (weak fairness of the next step); the
\* file has pages without segments and with empty segments, bytes that are
\* no page, and a page cut short
TermChunks ==
    {PageOf(2, 1, <<GoodPCMHeader(0)>>),
     PageOf(0, 1, <<>>),
     PageOf(0, 1, << <<>>, <<>> >>),
     PageOf(4, 1, <<>>),
     <<1, 2>>,
     Prefix(PageOf(0, 1, <<DataA>>), 28)}

NextTerm ==
    \/ read(TermChunks, MaxReads)
    \/ synchronise_take4
    \/ synchronise_loop
    \/ read_header
    \/ read_lacing
    \/ read_segment
    \/ yield_page
    \/ decode_page
    \/ dispatch
    \/ end_page

SpecTerm == Init /\ [][NextTerm]_vars /\ WF_vars(NextTerm)

\* page_reader alone, driven by a consumer that only asks for the next page
next_page ==
    /\ pc = "page"
    /\ pc' = "sync4"
    /\ UNCHANGED <<err, buffer, fed, reads, ReaderVars, DecodeVars, pages_log, seg_list>>

Filler(n) == [i \in 1..n |-> 100 + (i % 50)]

ReaderTables ==
    {<<>>, <<0>>, <<5, 3>>, <<255, 0>>, <<255, 255, 10>>, <<3, 255>>, <<255>>}

ReaderChunks ==
    {EncodePage(0, 0, 1, t, Filler(SumSeq(t))) : t \in ReaderTables}
    \cup {<<1, 2>>, Prefix(EncodePage(0, 0, 1, <<5, 3>>, Filler(8)), 30)}
    \cup {Prefix(EncodePage(0, 0, 1, <<5, 3>>, Filler(8)), 10),
          Prefix(EncodePage(0, 0, 1, <<5, 3>>, Filler(8)), 28),
          Prefix(EncodePage(0, 0, 1, <<5, 3>>, Filler(8)), 2),
          Suffix(EncodePage(0, 0, 1, <<5, 3>>, Filler(8)), 2),
          EncodePage(0, 5, 258, <<0>>, <<>>)}

NextReader ==
    \/ read(ReaderChunks, MaxReads)
    \/ synchronise_take4
    \/ synchronise_loop
    \/ read_header
    \/ read_lacing
    \/ read_segment
    \/ yield_page
    \/ next_page

SpecReader == Init /\ [][NextReader]_vars

\* the lacing decode as a pure function: of a table, and of the minimal
\* table of a list of lengths
InitLacing ==
    /\ objs = <<>>
    /\ \/ /\ Idle("lacing_table")
          /\ raw_segment_lengths \in SeqsUpTo(LacingVals, MaxTable)
          /\ seg_list = <<>>
       \/ /\ Idle("lacing_list")
          /\ raw_segment_lengths = <<>>
          /\ seg_list \in SeqsUpTo(LengthVals, MaxTable)

LacingUnchanged ==
    UNCHANGED <<err, buffer, fed, reads, sync, page_header, segments, payload_off,
                DecodeVars, pages_log>>

lacing_decode ==
    /\ pc \in {"lacing_table", "lacing_encoded"}
    /\ segment_lengths' = decode_lacing(raw_segment_lengths)
    /\ pc' = IF pc = "lacing_table" THEN "lacing_first" ELSE "lacing_decoded"
    /\ UNCHANGED <<raw_segment_lengths, seg_list>>
    /\ LacingUnchanged

\* the decoded lengths become the list to encode again
lacing_again ==
    /\ pc = "lacing_first"
    /\ seg_list' = segment_lengths
    /\ pc' = "lacing_list"
    /\ UNCHANGED <<raw_segment_lengths, segment_lengths>>
    /\ LacingUnchanged

lacing_encode ==
    /\ pc = "lacing_list"
    /\ raw_segment_lengths' = encode_lacing(seg_list)
    /\ pc' = "lacing_encoded"
    /\ UNCHANGED <<segment_lengths, seg_list>>
    /\ LacingUnchanged

NextLacing == lacing_decode \/ lacing_again \/ lacing_encode

SpecLacing == InitLacing /\ [][NextLacing]_vars

\* one OggPCMHandler, fed packets directly
InitPCM ==
    /\ Idle("handler")
    /\ raw_segment_lengths = <<>>
    /\ objs = <<OggPCMHandler_init>>
    /\ seg_list = <<>>

HandlerUnchanged ==
    UNCHANGED <<buffer, fed, reads, ReaderVars, page, seg_i, pages_log, handlers,
                seg_list>>

deliver(packets) ==
    /\ pc = "handler"
    /\ Len(objs[1].recv) < MaxPackets
    /\ \E packet \in packets :
          LET r == handle_packet(objs[1], packet)
          IN  /\ objs' = [objs EXCEPT ![1] = r.h]
              /\ output' = IF r.publish THEN SetKey(output, "markers", 1) ELSE output
              /\ err' = r.err
              /\ pc' = IF r.err # "" THEN "error" ELSE pc
    /\ HandlerUnchanged

NextPCM == deliver(PCMPackets)

SpecPCM == InitPCM /\ [][NextPCM]_vars

\* one W2GoHandler, fed packets directly
InitW2Go ==
    /\ Idle("handler")
    /\ raw_segment_lengths = <<>>
    /\ objs = <<W2GoHandler_init>>
    /\ seg_list = <<>>

NextW2Go == deliver(W2GoPackets)

SpecW2Go == InitW2Go /\ [][NextW2Go]_vars

----------------------------------------------------------------------------
(* Properties *)

\* the elements of a finite set of integers, ascending
Ascending(S) ==
    [k \in 1..Cardinality(S) |-> CHOOSE i \in S : Cardinality({j \in S : j < i}) = k - 1]

\* the extra_header_packets field of a PCM header packet, as the file holds it
DeclaredExtra(packet) == unpack_le(SubSeq(packet, 25, 28))

PCMHeaderDone(h) ==
    /\ h.cls = "OggPCMHandler"
    /\ h.done_packets >= 1

FlaggedRecords(data) ==
    Ascending({i \in 0..(Len(data) \div 16 - 1) :
                  /\ data[16 * i + 5] # 255
                  /\ (data[16 * i + 5] \div 4) % 2 = 1})

\* C2 as claimed: when the data packets of a status stream make up n complete
\* 16-byte records, the marker list is the ascending list of the flagged
\* record indices in 0..n-1, the last record included.
C2_MarkersOfAllCompleteRecords ==
    (/\ pc = "handler"
     /\ objs[1].cls = "W2GoHandler"
     /\ objs[1].type = "status"
     /\ Len(Concat(Tail(objs[1].recv))) % 16 = 0) =>
        objs[1].markers = FlaggedRecords(Concat(Tail(objs[1].recv)))

\* number of 255s at the end of a lacing table
RECURSIVE TrailingRun(_)
TrailingRun(t) ==
    IF t = <<>> \/ t[Len(t)] # 255 THEN 0
    ELSE 1 + TrailingRun(SubSeq(t, 1, Len(t) - 1))

SegmentLens == [k \in 1..Len(segments) |-> Len(segments[k])]

\* the segments are consecutive slices of the input, the first starting at
\* the first payload byte, and the reader has consumed exactly up to the end
\* of the last one
SegmentsAreConsecutiveSlices ==
    /\ SubSeq(fed, payload_off - Len(raw_segment_lengths) + 1, payload_off)
          = raw_segment_lengths
    /\ \A k \in 1..Len(segments) :
          LET start == payload_off + SumSeq(SubSeq(SegmentLens, 1, k - 1))
          IN  /\ start + Len(segments[k]) <= Len(fed)
              /\ segments[k] = SubSeq(fed, start + 1, start + Len(segments[k]))
    /\ Taken = payload_off + SumSeq(SegmentLens)

\* C3 as claimed: for every yielded page and every lacing table, the segment
\* lengths add up to the declared payload length (the sum of the table) and
\* the segments partition the payload, no payload byte left unread.
C3_SegmentsCoverDeclaredPayload ==
    pc = "page" =>
        /\ SumSeq(SegmentLens) = SumSeq(raw_segment_lengths)
        /\ SegmentsAreConsecutiveSlices

\* C3 amended: the segment lengths add up to the sum of the table minus its
\* trailing run of 255s; the segments are consecutive slices starting at the
\* first payload byte, and the 255 * (trailing run) last payload bytes are
\* left unread (none when the table does not end in 255).
C3_SegmentsCoverPayloadButTrailingRun ==
    pc = "page" =>
        /\ SumSeq(SegmentLens) =
              SumSeq(raw_segment_lengths) - 255 * TrailingRun(raw_segment_lengths)
        /\ page.segments = segments
        /\ SegmentsAreConsecutiveSlices

\* a page with table [255,255,10] yielded as one 520-byte segment, and one
\* with table [3,255] yielded as one 3-byte segment
C3_Witness ==
    /\ pc = "page"
    /\ Len(pages_log) = 2
    /\ raw_segment_lengths = <<3, 255>>
    /\ SegmentLens = <<3>>
    /\ Len(pages_log[1].segments) = 1
    /\ Len(pages_log[1].segments[1]) = 520

\* the run-length decode stated position by position: every entry below 255
\* ends a segment, whose length is that entry plus 255 for each entry of the
\* unbroken run of 255s right before it
ReferenceDecode(t) ==
    LET ends == Ascending({i \in 1..Len(t) : t[i] < 255})
        run(i) == i - 1 - (IF \E j \in 1..(i - 1) : t[j] < 255
                           THEN CHOOSE j \in 1..(i - 1) :
                                   /\ t[j] < 255
                                   /\ \A m \in (j + 1)..(i - 1) : t[m] = 255
                           ELSE 0)
    IN  [k \in 1..Len(ends) |-> 255 * run(ends[k]) + t[ends[k]]]

LacingDecoded == pc \in {"lacing_first", "lacing_decoded"}

\* C4: the lacing decode of page_reader equals the reference run-length
\* decode for every table; [255,255,10] gives [520], [0] gives [0], [5,3]
\* gives [5,3] and [255,0] gives [255].
C4_DecodeIsRunLengthDecode ==
    LacingDecoded =>
        /\ segment_lengths = ReferenceDecode(raw_segment_lengths)
        /\ raw_segment_lengths = <<255, 255, 10>> => segment_lengths = <<520>>
        /\ raw_segment_lengths = <<0>> => segment_lengths = <<0>>
        /\ raw_segment_lengths = <<5, 3>> => segment_lengths = <<5, 3>>
        /\ raw_segment_lengths = <<255, 0>> => segment_lengths = <<255>>

C4_Witness ==
    /\ pc = "lacing_first"
    /\ raw_segment_lengths = <<255, 255, 10>>
    /\ segment_lengths = <<520>>

\* C5: encoding a list of segment lengths into its minimal lacing table and
\* decoding that table gives the list back; so decoding, encoding and
\* decoding again gives the first decode.
C5_LacingRoundTrip ==
    pc = "lacing_decoded" => segment_lengths = seg_list

\* the list [510, 0, 256] came back through the table [255,255,0,0,255,1]
C5_Witness ==
    /\ pc = "lacing_decoded"
    /\ seg_list = <<510, 0, 256>>
    /\ raw_segment_lengths = <<255, 255, 0, 0, 255, 1>>
    /\ segment_lengths = <<510, 0, 256>>


ErrSplit == "ValueError: split packets"
ErrCodec == "ValueError: Unknown codec"

Refs == {handlers[t] : t \in DOMAIN handlers}

\* decode stands at line 193 with a freshly yielded page
AtPage == pc = "page"

\* C6: a page with continued_packet set makes decode fail at once: none of
\* its segments reaches a handler, no handler is created or removed, and
\* nothing happens after the error (no later page is read or processed).
C6_ContinuedPageIsFatal ==
    [][/\ (AtPage /\ page.continued_packet) =>
              /\ pc' = "error"
              /\ err' = ErrSplit
              /\ UNCHANGED <<objs, handlers, output, pages_log, reads, buffer>>
       /\ err = ErrSplit => UNCHANGED vars]_vars

\* a stream had received two packets; the next page of that stream was a
\* continued one and the handler still has exactly those two packets
C6_Witness ==
    /\ pc = "error"
    /\ err = ErrSplit
    /\ page.continued_packet
    /\ Len(pages_log) = 2
    /\ page.stream_serial \in DOMAIN handlers
    /\ objs[handlers[page.stream_serial]].recv = pages_log[1].segments

KnownTags == {TagPCM, TagW2Go}

\* the page has passed the continued_packet test and opens a stream
AtBeginPage ==
    /\ AtPage
    /\ ~page.continued_packet
    /\ page.begin_of_stream
    /\ page.segments # <<>>

\* C7: a begin_of_stream page (one that passed the continued_packet test)
\* whose first segment does not start with "PCM     " or "RODEWgo2" makes
\* decode fail with the unknown-codec error before any of its segments is
\* dispatched; the serial-to-handler mapping is as before the page and
\* nothing happens after the error.
C7_UnknownCodecIsFatal ==
    [][/\ (AtBeginPage /\ Prefix(page.segments[1], 8) \notin KnownTags) =>
              /\ pc' = "error"
              /\ err' = ErrCodec
              /\ UNCHANGED <<objs, handlers, output, pages_log, reads, buffer>>
       /\ err = ErrCodec => UNCHANGED vars]_vars

\* stream 1 is open with two packets received; a page opening stream 258
\* with an unknown tag ended decode, the mapping still holds stream 1 alone
C7_Witness ==
    /\ pc = "error"
    /\ err = ErrCodec
    /\ Len(pages_log) = 2
    /\ page.stream_serial = 258
    /\ DOMAIN handlers = {1}
    /\ objs[handlers[1]].recv = pages_log[1].segments
    /\ Len(objs) = 1

\* the pages decode has taken from the reader and gone past line 200 with,
\* and how many segments of the last of them it has dispatched
PagesBegun ==
    IF pc = "page" THEN SubSeq(pages_log, 1, Len(pages_log) - 1) ELSE pages_log

DispatchedOf(i) ==
    IF i = Len(pages_log) /\ pc = "dispatch"
    THEN SubSeq(pages_log[i].segments, 1, seg_i - 1)
    ELSE pages_log[i].segments

\* the packets the current handler of stream s is due: the segments of the
\* pages of serial s from the last begin_of_stream page of s on, in page
\* order and in segment order
RECURSIVE DueFrom(_, _)
DueFrom(s, i) ==
    IF i > Len(PagesBegun) THEN <<>>
    ELSE (IF pages_log[i].stream_serial = s THEN DispatchedOf(i) ELSE <<>>)
         \o DueFrom(s, i + 1)

LastBegin(s) ==
    CHOOSE b \in 1..Len(PagesBegun) :
        /\ pages_log[b].stream_serial = s
        /\ pages_log[b].begin_of_stream
        /\ \A c \in (b + 1)..Len(PagesBegun) :
              ~(pages_log[c].stream_serial = s /\ pages_log[c].begin_of_stream)

OwnPacketsOnly ==
    pc # "error" =>
        \A s \in DOMAIN handlers :
            /\ \E b \in 1..Len(PagesBegun) :
                  pages_log[b].stream_serial = s /\ pages_log[b].begin_of_stream
            /\ objs[handlers[s]].recv = DueFrom(s, LastBegin(s))

\* C8: however the pages of streams with distinct serials interleave, the
\* handler of each stream has received exactly the segments of the pages of
\* its own serial, in page order and segment order, and a packet changes the
\* state of no handler but the one of its own stream.
C8_StreamsAreIsolated ==
    /\ []OwnPacketsOnly
    /\ [][\A i \in 1..Len(objs) :
             objs'[i] # objs[i] =>
                 /\ pc = "dispatch"
                 /\ page.stream_serial \in DOMAIN handlers
                 /\ i = handlers[page.stream_serial]]_vars

\* pages in a-b-a-b order, a PCM stream 1 and a status stream 258, each
\* handler holding the four packets of its own two pages
C8_Witness ==
    /\ pc = "sync4"
    /\ Len(pages_log) = 4
    /\ \A i \in 1..4 : pages_log[i].stream_serial = (IF i % 2 = 1 THEN 1 ELSE 258)
    /\ DOMAIN handlers = {1, 258}
    /\ objs[handlers[1]].cls = "OggPCMHandler"
    /\ objs[handlers[258]].cls = "W2GoHandler"
    /\ objs[handlers[1]].recv = pages_log[1].segments \o pages_log[3].segments
    /\ objs[handlers[258]].recv = pages_log[2].segments \o pages_log[4].segments
    /\ objs[handlers[258]].seconds = 1

Last(q, n) == SubSeq(q, Len(q) - n + 1, Len(q))

\* C9: a begin_of_stream page with a known tag (having passed the
\* continued_packet test) maps its serial to a fresh handler of the tag's
\* class with packet counter 0, in place of any handler mapped before, and
\* none of its segments has been dispatched yet; a handler leaves the
\* mapping only at the end of an end_of_stream page of its serial, after all
\* segments of that page were dispatched to it; and a handler that is no
\* longer mapped is never called again.
C9_StreamLifecycle ==
    [][/\ (AtBeginPage /\ Prefix(page.segments[1], 8) \in KnownTags) =>
              /\ pc' = "dispatch"
              /\ seg_i' = 1
              /\ Len(objs') = Len(objs) + 1
              /\ DOMAIN handlers' = DOMAIN handlers \cup {page.stream_serial}
              /\ handlers'[page.stream_serial] = Len(objs')
              /\ objs'[Len(objs')].done_packets = 0
              /\ objs'[Len(objs')].recv = <<>>
              /\ objs'[Len(objs')].cls =
                    (IF Prefix(page.segments[1], 8) = TagPCM
                     THEN "OggPCMHandler" ELSE "W2GoHandler")
              /\ \A t \in DOMAIN handlers \ {page.stream_serial} :
                    handlers'[t] = handlers[t]
       /\ (pc = "dispatch" /\ seg_i > Len(page.segments) /\ page.end_of_stream) =>
              /\ DOMAIN handlers' = DOMAIN handlers \ {page.stream_serial}
              /\ \A t \in DOMAIN handlers' : handlers'[t] = handlers[t]
              /\ Len(objs[handlers[page.stream_serial]].recv) >= Len(page.segments)
              /\ Last(objs[handlers[page.stream_serial]].recv, Len(page.segments))
                    = page.segments
       /\ ~(DOMAIN handlers \subseteq DOMAIN handlers') =>
              (pc = "dispatch" /\ seg_i > Len(page.segments) /\ page.end_of_stream)
       /\ \A i \in 1..Len(objs) : i \notin Refs => objs'[i] = objs[i]]_vars

\* stream 1 was begun, ended by an end_of_stream page after its segment was
\* dispatched, and begun again: the mapping now holds the second handler,
\* fresh, and the first one kept the three packets it had at its removal
C9_Witness ==
    /\ pc = "dispatch"
    /\ seg_i = 1
    /\ Len(pages_log) = 3
    /\ \A i \in 1..3 : pages_log[i].stream_serial = 1
    /\ pages_log[1].begin_of_stream
    /\ pages_log[2].end_of_stream /\ ~pages_log[2].begin_of_stream
    /\ pages_log[3].begin_of_stream
    /\ Len(objs) = 2
    /\ DOMAIN handlers = {1}
    /\ handlers[1] = 2
    /\ objs[2].done_packets = 0
    /\ objs[1].recv = pages_log[1].segments \o pages_log[2].segments

PCMHandlers == {i \in 1..Len(objs) : objs[i].cls = "OggPCMHandler"}

\* the header packet parses: 8 tag bytes and the 20 bytes of '<HHLLBBHL',
\* with major 0, minor 0 and format 4
ParsesAsPCMHeader(packet) ==
    /\ Len(packet) = 28
    /\ unpack_le(SubSeq(packet, 9, 10)) = 0
    /\ unpack_le(SubSeq(packet, 11, 12)) = 0
    /\ unpack_le(SubSeq(packet, 13, 16)) = 4

\* C10: a PCM handler has written to the sink only if its first packet was
\* parsed as the header and the sink was opened and configured from it
\* (channels, width 3, rate); the first packet it received is never among
\* the blocks written: they are the last packets received, the first one
\* excluded.
C10_NothingWrittenBeforeHeader ==
    \A i \in PCMHandlers :
        LET h == objs[i] IN
        /\ h.wav.frames # <<>> =>
              /\ h.done_packets >= 1
              /\ ParsesAsPCMHeader(h.recv[1])
              /\ h.wav.open
              /\ h.wav.nchannels = h.recv[1][22] /\ h.wav.nchannels >= 1
              /\ h.wav.sampwidth = 3
              /\ h.wav.framerate = unpack_le(SubSeq(h.recv[1], 17, 20))
              /\ h.wav.framerate >= 1
        /\ h.recv = <<>> => h.wav.frames = <<>>
        /\ h.recv # <<>> =>
              /\ Len(h.wav.frames) <= Len(h.recv) - 1
              /\ h.wav.frames = Last(h.recv, Len(h.wav.frames))

\* a handler whose sink holds two blocks after a header declaring no extra
\* header packet
C10_Witness ==
    /\ pc = "handler"
    /\ objs[1].cls = "OggPCMHandler"
    /\ Len(objs[1].recv) = 4
    /\ objs[1].wav.frames = <<DataA, DataB>>
    /\ objs[1].wav.open


\* the header packet has the 28 bytes of a PCM header but not major 0,
\* minor 0 and format 4
RejectedPCMHeader(packet) ==
    /\ Len(packet) = 28
    /\ ~ParsesAsPCMHeader(packet)

\* C11: a PCM handler whose header packet has major # 0, minor # 0 or format
\* code # 4 has failed on it with the assertion error: its sink is neither
\* opened nor configured, its extra-header-packet count is still the initial
\* 0 (not the count the packet declares), it has been given no further packet
\* and has written nothing, and decode has stopped with that error.
C11_BadPCMHeaderIsFatal ==
    \A i \in PCMHandlers :
        (objs[i].recv # <<>> /\ RejectedPCMHeader(objs[i].recv[1])) =>
            /\ pc = "error"
            /\ err = "AssertionError"
            /\ objs[i].wav = NoWav
            /\ objs[i].num_extra_header_packets = 0
            /\ objs[i].done_packets = 0
            /\ Len(objs[i].recv) = 1
            /\ seg_i = 1

\* the second stream of a container opened with a header of minor version 1
\* declaring 2 extra header packets: decode stopped, the first stream's
\* handler is as it was
C11_Witness ==
    /\ pc = "error"
    /\ err = "AssertionError"
    /\ Len(pages_log) = 2
    /\ Len(objs) = 2
    /\ RejectedPCMHeader(objs[2].recv[1])
    /\ unpack_le(SubSeq(objs[2].recv[1], 11, 12)) = 1
    /\ DeclaredExtra(objs[2].recv[1]) = 2
    /\ objs[2].wav = NoWav
    /\ Len(page.segments) = 2
    /\ objs[1].recv = pages_log[1].segments


ErrSubtype == "ValueError: Wgo2 packet type"

\* packet[8:9] of the first packet a telemetry handler received
SubtypeTag(h) == Slice(h.recv[1], 8, 9)

\* C12: the byte at offset 8 of packet 0 of a telemetry stream selects the
\* sub-type.  With 'S' the handler is a status handler, its marker list is
\* published under output['markers'] and the later packets are consumed as
\* records; with 'P' the packet is accepted and no later packet changes the
\* accumulator, the elapsed-second counter, the marker list or the output;
\* with anything else the call fails with the sub-type error and nothing
\* further is delivered.
C12_SubtypeSelection ==
    LET h == objs[1] IN
    h.recv # <<>> =>
        /\ SubtypeTag(h) = <<ChS>> =>
              /\ pc = "handler"
              /\ h.type = "status"
              /\ output = {<<"markers", 1>>}
              /\ h.done_packets = Len(h.recv)
              /\ 16 * h.seconds + Len(h.buffer) = Len(Concat(Tail(h.recv)))
        /\ SubtypeTag(h) = <<ChP>> =>
              /\ pc = "handler"
              /\ h.type = "peak"
              /\ h.done_packets = Len(h.recv)
              /\ h.buffer = <<>>
              /\ h.seconds = 0
              /\ h.markers = <<>>
              /\ output = {}
        /\ SubtypeTag(h) \notin {<<ChS>>, <<ChP>>} =>
              /\ pc = "error"
              /\ err = ErrSubtype
              /\ Len(h.recv) = 1
              /\ h.type = "unset"
              /\ h.done_packets = 0
              /\ output = {}

\* a peak stream that was sent flagged status records and kept its state
C12_Witness ==
    /\ pc = "handler"
    /\ objs[1].type = "peak"
    /\ Len(objs[1].recv) = 4
    /\ objs[1].recv[2] = Record(4) \o Record(255)
    /\ objs[1].recv[3] = Record(4)
    /\ objs[1].recv[4] = Record(12)
    /\ objs[1].markers = <<>>
    /\ objs[1].seconds = 0
    /\ output = {}


IsPrefixOf(a, b) == Len(a) <= Len(b) /\ a = SubSeq(b, 1, Len(a))

StatusHandler(h) == h.cls = "W2GoHandler" /\ h.type = "status"

\* C13: the marker list of a status handler is always a non-decreasing list
\* of non-negative integers, and a handle_packet call only appends to it:
\* the list before the call is a prefix of the list after it.
C13_MarkersMonotoneAppendOnly ==
    /\ [](StatusHandler(objs[1]) =>
            /\ \A k \in 1..Len(objs[1].markers) :
                  objs[1].markers[k] \in Nat
            /\ \A k \in 1..(Len(objs[1].markers) - 1) :
                  objs[1].markers[k] <= objs[1].markers[k + 1])
    /\ [][objs[1].cls = "W2GoHandler" =>
             IsPrefixOf(objs[1].markers, objs'[1].markers)]_vars

\* two calls each appended one marker
C13_Witness ==
    /\ pc = "handler"
    /\ StatusHandler(objs[1])
    /\ Len(objs[1].recv) = 3
    /\ objs[1].markers = <<0, 2>>

----------------------------------------------------------------------------
(* The page reader against the file as a whole: `fed` is everything the    *)
(* stream delivered, so at a terminal state it is the whole file.           *)

\* positions e of `data` at which a sync pattern ends, the reader having
\* stopped at pos: synchronise takes 4 bytes before it tests anything
SyncEnds(data, pos) ==
    {e \in (pos + 4)..Len(data) : SubSeq(data, e - 3, e) = OggS}

FirstSyncEnd(data, pos) ==
    CHOOSE e \in SyncEnds(data, pos) : \A f \in SyncEnds(data, pos) : e <= f

\* the page whose 23-byte header starts right after position e
PageAt(data, e) ==
    LET hdr == SubSeq(data, e + 1, e + 23)
        n == hdr[23]
        lens == ReferenceDecode(SubSeq(data, e + 24, e + 23 + n))
        start == e + 23 + n
    IN  [stream_serial |-> hdr[11] + 256 * hdr[12] + 65536 * hdr[13]
                            + 16777216 * hdr[14],
         segments |-> [k \in 1..Len(lens) |->
                          SubSeq(data, start + SumSeq(SubSeq(lens, 1, k - 1)) + 1,
                                 start + SumSeq(SubSeq(lens, 1, k)))],
         continued_packet |-> hdr[2] % 2 = 1,
         begin_of_stream |-> (hdr[2] \div 2) % 2 = 1,
         end_of_stream |-> (hdr[2] \div 4) % 2 = 1]

\* the position right after the last payload byte of that page; beyond
\* Len(data) when the file stops short of it
PageStop(data, e) ==
    IF e + 23 > Len(data) THEN e + 23
    ELSE IF e + 23 + data[e + 23] > Len(data) THEN e + 23 + data[e + 23]
    ELSE e + 23 + data[e + 23]
         + SumSeq(ReferenceDecode(SubSeq(data, e + 24, e + 23 + data[e + 23])))

\* the file read front to back: the complete pages in order, and how the
\* reading ends
RECURSIVE FilePages(_, _, _)
FilePages(data, pos, pages) ==
    IF SyncEnds(data, pos) = {}
    THEN [pages |-> pages, ending |-> "exhausted"]
    ELSE LET e == FirstSyncEnd(data, pos)
         IN  IF e + 23 <= Len(data) /\ data[e + 1] # 0
             THEN [pages |-> pages, ending |-> "revision"]
             ELSE IF PageStop(data, e) > Len(data)
             THEN [pages |-> pages, ending |-> "truncated"]
             ELSE FilePages(data, PageStop(data, e), Append(pages, PageAt(data, e)))

\* C14: a file that ends while the reader scans for the next sync pattern
\* ends the parse normally, and one that ends inside a page (header, lacing
\* table or payload) ends it with EndOfFileError; either way the pages
\* yielded are exactly the complete pages of the file, the cut one excluded.
C14_EndOfInputWhileScanningOnly ==
    /\ pc = "done" =>
          /\ FilePages(fed, 0, <<>>).ending = "exhausted"
          /\ pages_log = FilePages(fed, 0, <<>>).pages
    /\ err = "EndOfFileError" =>
          /\ pc = "error"
          /\ FilePages(fed, 0, <<>>).ending = "truncated"
          /\ pages_log = FilePages(fed, 0, <<>>).pages

C14_Witness ==
    /\ pc = "error"
    /\ err = "EndOfFileError"
    /\ Len(pages_log) = 2
    /\ pages_log[2].end_of_stream
    /\ Len(segment_lengths) = 2
    /\ segments = <<>>

----------------------------------------------------------------------------
\* the exceptions decode can end with
ErrorKinds ==
    {"ValueError: revision", "ValueError: Unknown codec", "ValueError: split packets",
     "struct.error", "AssertionError", "wave.Error", "ValueError: Wgo2 packet type",
     "EndOfFileError", "KeyError", "IndexError"}

\* a call of handle_packet is logged in the `recv` of the handler called
CallsMade == [k \in 1..Len(objs) |-> Len(objs[k].recv)]

\* C15: every error is fatal to decode.  A page whose revision byte is not
\* 0 raises an error and is not yielded; and once an error of any kind has
\* been raised, nothing happens any more: no page is read or yielded, no
\* handle_packet call is made, and decode does not return (it never reaches
\* the end at which it hands its output to the caller).
C15_EveryErrorIsFatal ==
    /\ [](/\ (pc = "error") <=> (err # "")
          /\ pc = "error" => err \in ErrorKinds)
    /\ [][/\ pc = "header" /\ Len(buffer) >= 23 /\ buffer[1] # 0
             => /\ pc' = "error"
                /\ err' = "ValueError: revision"
                /\ pages_log' = pages_log
          /\ pc = "error"
             => /\ pc' = "error"
                /\ err' = err
                /\ fed' = fed
                /\ reads' = reads
                /\ buffer' = buffer
                /\ pages_log' = pages_log
                /\ CallsMade' = CallsMade
                /\ objs' = objs
                /\ output' = output]_vars

C15_Witness ==
    /\ pc = "error"
    /\ err = "ValueError: revision"
    /\ Len(pages_log) = 2
    /\ reads < MaxPages
    /\ Len(objs) = 1
    /\ objs[1].cls = "W2GoHandler"

----------------------------------------------------------------------------
\* the handler that got the same header packet and then all the data bytes
\* of `recv` as one single packet
InOnePacket(recv) ==
    W2GoHandler_handle_status(W2GoHandler_handle_packet(W2GoHandler_init, recv[1]).h,
                              Concat(Tail(recv)))

\* C16: the marker list, the elapsed-second counter and the accumulator of
\* a status handler depend on the data bytes delivered only, not on how
\* they were cut into packets: they are what delivering the same bytes as
\* one packet gives (so any two ways of splitting them agree).
C16_PacketBoundaryIndependence ==
    (pc = "handler" /\ StatusHandler(objs[1])) =>
        /\ objs[1].markers = InOnePacket(objs[1].recv).markers
        /\ objs[1].seconds = InOnePacket(objs[1].recv).seconds
        /\ objs[1].buffer = InOnePacket(objs[1].recv).buffer

C16_Witness ==
    /\ pc = "handler"
    /\ StatusHandler(objs[1])
    /\ Len(objs[1].recv) = 5
    /\ objs[1].recv[2] = Prefix(Record(4), 8)
    /\ objs[1].recv[3] = Suffix(Record(4), 8)
    /\ objs[1].recv[4] = Prefix(Record(4), 8)
    /\ objs[1].recv[5] = Record(4) \o Record(255)
    /\ objs[1].markers = <<0, 1, 2>>
    /\ objs[1].seconds = 3
    /\ Len(objs[1].buffer) = 8

----------------------------------------------------------------------------
\* the input position at which the consumption of the previous page stopped
\* (0 before the first page), while the reader looks for the next page
PrevStop == IF pages_log = <<>> THEN 0 ELSE payload_off + SumSeq(SegmentLens)

\* C17: the reader goes through the input forward and once.  The input not
\* yet consumed is always the tail of what the stream delivered and the
\* position only grows; when a sync pattern has been matched, the position
\* is the end of the earliest "OggS" ending 4 bytes or more past the point
\* where the previous page stopped (the input start for the first page),
\* the bytes from that point up to there are those synchronise took and
\* drops, and so the new page starts past every byte of the previous one.
C17_ForwardSinglePass ==
    /\ [](/\ buffer = SubSeq(fed, Taken + 1, Len(fed))
          /\ pc \in {"sync4", "sync1", "header"} => Taken >= PrevStop
          /\ pc = "header" =>
                /\ SyncEnds(fed, PrevStop) # {}
                /\ Taken = FirstSyncEnd(fed, PrevStop)
                /\ sync = SubSeq(fed, PrevStop + 1, Taken)
                /\ Taken - 4 >= PrevStop)
    /\ [][Taken' >= Taken]_vars

C17_Witness ==
    /\ pc = "header"
    /\ Len(pages_log) = 1
    /\ pages_log[1].segments # <<>>
    /\ Taken = PrevStop + 6
    /\ sync = <<79, 103>> \o OggS

----------------------------------------------------------------------------
\* the page just yielded passed the continued-packet test, opens no stream
\* and has a serial with no handler at the moment
UnmappedPage ==
    /\ AtPage
    /\ ~page.continued_packet
    /\ ~page.begin_of_stream
    /\ page.stream_serial \notin DOMAIN handlers

\* C18: decode hands packets to mapped handlers only.  Whenever it is about
\* to call handle_packet, the page's serial has a handler; and a page that
\* opens no stream and whose serial has none (never begun, or ended by an
\* end_of_stream page) makes decode stop with an error, no handler made, no
\* handler called, the page not skipped.
C18_NoDispatchToUnmappedStream ==
    /\ [](pc = "dispatch" => page.stream_serial \in DOMAIN handlers)
    /\ [][UnmappedPage =>
             /\ pc' = "error"
             /\ err' = "KeyError"
             /\ objs' = objs
             /\ handlers' = handlers
             /\ output' = output]_vars

C18_Witness ==
    /\ pc = "error"
    /\ err = "KeyError"
    /\ Len(pages_log) = 3
    /\ pages_log[1].begin_of_stream
    /\ pages_log[2].end_of_stream
    /\ pages_log[2].stream_serial = pages_log[1].stream_serial
    /\ pages_log[3].stream_serial = pages_log[1].stream_serial
    /\ Len(objs) = 1
    /\ DOMAIN handlers = {}
    /\ CallsMade = <<3>>

----------------------------------------------------------------------------
\* number of data bytes a handler has been given after its header packet
DataBytes(h) == Len(Concat(Tail(h.recv)))

\* C19: after every handle_packet call on a status handler the accumulator
\* holds at most 16 bytes, the elapsed-second counter is the number of
\* records consumed, (data bytes received - accumulator length) / 16, and
\* every marker is below the counter and above the marker before it.
C19_AccumulatorAndClock ==
    (pc = "handler" /\ StatusHandler(objs[1])) =>
        /\ Len(objs[1].buffer) <= 16
        /\ (DataBytes(objs[1]) - Len(objs[1].buffer)) % 16 = 0
        /\ objs[1].seconds = (DataBytes(objs[1]) - Len(objs[1].buffer)) \div 16
        /\ \A k \in 1..Len(objs[1].markers) : objs[1].markers[k] < objs[1].seconds
        /\ \A k \in 2..Len(objs[1].markers) :
              objs[1].markers[k - 1] < objs[1].markers[k]

C19_Witness ==
    /\ pc = "handler"
    /\ StatusHandler(objs[1])
    /\ DataBytes(objs[1]) = 80
    /\ Len(objs[1].buffer) = 16
    /\ objs[1].seconds = 4
    /\ objs[1].markers = <<0, 2>>

----------------------------------------------------------------------------
\* decode is over: it returned its output, or an exception left it
Terminated == pc \in {"done", "error"}

\* C20: on a finite file decode terminates, by returning after the input
\* ran out during the sync scan or by an error.  Every page yielded has cost
\* at least the 4 sync bytes and the 23 header bytes, pages without segments
\* or with empty segments included, and decode returns from the sync scan
\* only.
C20_DecodeTerminates ==
    /\ <>Terminated
    /\ [](27 * Len(pages_log) <= Taken)
    /\ [][pc' = "done" => pc \in {"sync4", "sync1"} /\ Len(buffer) < 4]_vars

C20_Witness ==
    /\ pc = "done"
    /\ Len(pages_log) = 3
    /\ pages_log[2].segments = <<>>
    /\ pages_log[3].segments = << <<>>, <<>> >>
    /\ Taken = 27 + Len(GoodPCMHeader(0)) + 1 + 27 + 29
====
